---- MODULE Spec2Model ----
\* Model of lib/Sender.js (HyBi WebSocket frame encoder): the four public
\* operations close/ping/pong/send, the shared frameAndSend procedure with
\* its inner _frame_and_send, and the per-call DeflateRaw stream.
EXTENDS Integers, Sequences, FiniteSets, TLC

\* ------------------------------------------------------------------
\* Bounds of the exploration
\* ------------------------------------------------------------------
MaxCalls == 3

\* ------------------------------------------------------------------
\* Bit arithmetic on naturals (JavaScript &, |, ^ on non-negative ints)
\* ------------------------------------------------------------------
RECURSIVE BitAnd(_, _)
BitAnd(a, b) ==
  IF a = 0 \/ b = 0 THEN 0
  ELSE (IF a % 2 = 1 /\ b % 2 = 1 THEN 1 ELSE 0) + 2 * BitAnd(a \div 2, b \div 2)

RECURSIVE BitOr(_, _)
BitOr(a, b) ==
  IF a = 0 THEN b
  ELSE IF b = 0 THEN a
  ELSE (IF a % 2 = 1 \/ b % 2 = 1 THEN 1 ELSE 0) + 2 * BitOr(a \div 2, b \div 2)

RECURSIVE BitXor(_, _)
BitXor(a, b) ==
  IF a = 0 THEN b
  ELSE IF b = 0 THEN a
  ELSE (IF a % 2 # b % 2 THEN 1 ELSE 0) + 2 * BitXor(a \div 2, b \div 2)

\* ------------------------------------------------------------------
\* Byte buffers.  A buffer is pre ++ (n bytes of the cyclic 4-byte pattern
\* pat) ++ post, so that payloads of 32768 and 65536 bytes stay small
\* values; a buffer with n = 0 keeps all of its bytes in pre.
\* ------------------------------------------------------------------
ZeroPat == <<0, 0, 0, 0>>

Buf(pre, n, pat, post) ==
  IF n = 0 THEN [pre |-> pre \o post, n |-> 0, pat |-> ZeroPat, post |-> <<>>]
  ELSE [pre |-> pre, n |-> n, pat |-> pat, post |-> post]

Bytes(s) == Buf(s, 0, ZeroPat, <<>>)

Fill(n, b) == Buf(<<>>, n, <<b, b, b, b>>, <<>>)

BLen(b) == Len(b.pre) + b.n + Len(b.post)

\* byte at 0-based index i
ByteAt(b, i) ==
  IF i < Len(b.pre) THEN b.pre[i + 1]
  ELSE IF i < Len(b.pre) + b.n THEN b.pat[((i - Len(b.pre)) % 4) + 1]
  ELSE b.post[i - Len(b.pre) - b.n + 1]

\* header ++ data, as written by data.copy(outputBuffer, dataOffset)
Prepend(hdr, b) == Buf(hdr \o b.pre, b.n, b.pat, b.post)

\* Buffer.concat([a, b]) for an a that holds all of its bytes in pre or a b
\* that does
BufConcat(a, b) ==
  IF a.n = 0 THEN Buf(a.pre \o b.pre, b.n, b.pat, b.post)
  ELSE Buf(a.pre, a.n, a.pat, a.post \o b.pre)

Max(a, b) == IF a > b THEN a ELSE b

\* the first k bytes of b and the rest of it, for a cut inside pre or post
BufTake(b, k) ==
  IF k <= Len(b.pre) THEN Bytes(SubSeq(b.pre, 1, k))
  ELSE Buf(b.pre, b.n, b.pat, SubSeq(b.post, 1, k - Len(b.pre) - b.n))

BufDrop(b, k) ==
  IF k <= Len(b.pre) THEN Buf(SubSeq(b.pre, k + 1, Len(b.pre)), b.n, b.pat, b.post)
  ELSE Bytes(SubSeq(b.post, k - Len(b.pre) - b.n + 1, Len(b.post)))

\* removes only k - 2 bytes
SliceOffEndShort(b, k) ==
  LET keep == Max(0, BLen(b) - (k - 2)) IN
  IF keep <= Len(b.pre) THEN Bytes(SubSeq(b.pre, 1, keep))
  ELSE IF keep <= Len(b.pre) + b.n THEN Buf(b.pre, keep - Len(b.pre), b.pat, <<>>)
  ELSE Buf(b.pre, b.n, b.pat, SubSeq(b.post, 1, keep - Len(b.pre) - b.n))

\* Buffer.prototype.slice(0, -k)
SliceOffEnd(b, k) ==
  LET keep == Max(0, BLen(b) - k) IN
  IF keep <= Len(b.pre) THEN Bytes(SubSeq(b.pre, 1, keep))
  ELSE IF keep <= Len(b.pre) + b.n THEN Buf(b.pre, keep - Len(b.pre), b.pat, <<>>)
  ELSE Buf(b.pre, b.n, b.pat, SubSeq(b.post, 1, keep - Len(b.pre) - b.n))

\* bufferUtil.mask(source, mask, output, offset, length): byte i of the
\* source XOR mask[i % 4]
MaskSeq(s, key, off) == [j \in 1..Len(s) |-> BitXor(s[j], key[((off + j - 1) % 4) + 1])]

bufferUtilMask(b, key) ==
  Buf(MaskSeq(b.pre, key, 0),
      b.n,
      [j \in 1..4 |-> BitXor(b.pat[j], key[((Len(b.pre) + j - 1) % 4) + 1])],
      MaskSeq(b.post, key, Len(b.pre) + b.n))

writeUInt16LE(value) ==
  << BitAnd(value, 255), BitAnd(value, 65280) \div 256 >>

writeUInt16BE(value) ==
  << BitAnd(value, 65280) \div 256, BitAnd(value, 255) >>

\* (value & 0xff000000) >> 24 stored in a byte is bits 24..31 of value
writeUInt32BE(value) ==
  << BitAnd(value \div 16777216, 255),
     BitAnd(value, 16711680) \div 65536,
     BitAnd(value, 65280) \div 256,
     BitAnd(value, 255) >>

\* getRandomMask(): four bytes, each ~~(Math.random() * 255), i.e. 0..254
MaskKeys == { <<1, 2, 3, 4>>, <<254, 0, 165, 90>> }

getRandomMask == MaskKeys

\* ------------------------------------------------------------------
\* JavaScript values handed to the encoder
\* ------------------------------------------------------------------
\* UTF-8 encoding of one code point below 0x800 (Buffer.byteLength,
\* Buffer#write and new Buffer(string) all encode strings as UTF-8)
Utf8Char(c) ==
  IF c < 128 THEN <<c>>
  ELSE << 192 + (c \div 64), 128 + (c % 64) >>

RECURSIVE Utf8(_)
Utf8(s) == IF s = <<>> THEN <<>> ELSE Utf8Char(Head(s)) \o Utf8(Tail(s))

byteLength(s) == Len(Utf8(s))

\* A payload value: t is its JavaScript type, buf its content (the code
\* points of a string, the bytes of a Buffer, the bytes underlying a typed
\* array), off/len the byteOffset/byteLength of a typed-array view.
Undefined == [t |-> "undefined", buf |-> Bytes(<<>>), off |-> 0, len |-> 0]
Str(b)    == [t |-> "string", buf |-> b, off |-> 0, len |-> 0]
Buffer(b) == [t |-> "buffer", buf |-> b, off |-> 0, len |-> 0]
View(b, o, l) == [t |-> "view", buf |-> b, off |-> o, len |-> l]

\* !message_data : undefined and the empty string are falsy, objects are not
Falsy(d) == d.t = "undefined" \/ (d.t = "string" /\ BLen(d.buf) = 0)

isBuffer(d) == d.t = "buffer"

\* new Buffer(string): the fill of a long string is ASCII, one byte a char
NewBufferFromString(b) == Buf(Utf8(b.pre), b.n, b.pat, Utf8(b.post))

getArrayBuffer(d) == Bytes([i \in 1..d.len |-> d.buf.pre[d.off + i]])

\* ErrorCodes.isValidErrorCode: the registry of legal close codes
isValidErrorCode(code) ==
  \/ (code >= 1000 /\ code <= 1011 /\ code \notin {1004, 1005, 1006})
  \/ (code >= 3000 /\ code <= 4999)

\* A close code argument: undefined, a number, or a value of another type
NoCode      == [t |-> "undefined", v |-> 0]
NumCode(v)  == [t |-> "number", v |-> v]
StrCode(v)  == [t |-> "string", v |-> v]

\* ------------------------------------------------------------------
\* zlib.DeflateRaw({flush: Z_SYNC_FLUSH}) fed one buffer and ended: one
\* stored block holding the input, the empty stored block of the sync
\* flush (00 | 00 00 FF FF) and the final empty block (03 00)
\* ------------------------------------------------------------------
SyncFlushTrailer == <<0, 0, 255, 255, 3, 0>>

Deflate(b) ==
  LET l == BLen(b) IN
  Buf(<<0, l % 256, l \div 256, 255 - (l % 256), 255 - (l \div 256)>> \o b.pre,
      b.n, b.pat,
      b.post \o <<0>> \o SyncFlushTrailer)

\* ------------------------------------------------------------------
\* State
\* ------------------------------------------------------------------
VARIABLES
  firstFragment,   \* this.firstFragment
  randomMask,      \* this._randomMask: <<>> while unset, then the cached key
  jobs,            \* the live deflate streams, by the id of the call that made them
  wire,            \* the buffers accepted by this._socket.write, in write order
  errs,            \* errors raised: by cb(e), by emit('error', e) or by throw
  failedWrites,    \* ids of the calls one of whose socket writes threw
  calls,           \* the calls made so far; a call's id is its index
  inPlace          \* the buffers masked in place (line 165): call id and owner

vars == <<firstFragment, randomMask, jobs, wire, errs, failedWrites, calls, inPlace>>

MaxChunks == 2

Init ==
  /\ firstFragment = TRUE
  /\ randomMask = <<>>
  /\ jobs = <<>>
  /\ wire = <<>>
  /\ errs = <<>>
  /\ failedWrites = <<>>
  /\ calls = <<>>
  /\ inPlace = <<>>

CallRec(op, accepted, ff, opcode, data, fin, maskData, compress, cb, args) ==
  [op |-> op, accepted |-> accepted, ffBefore |-> ff, opcode |-> opcode,
   data |-> data, fin |-> fin, mask |-> maskData, compress |-> compress,
   cb |-> cb, args |-> args]

\* ------------------------------------------------------------------
\* _frame_and_send(data)
\* ------------------------------------------------------------------
dataOffset(dataLength, maskData) ==
  (IF maskData THEN 6 ELSE 2)
    + (IF dataLength >= 65536 THEN 8 ELSE IF dataLength > 125 THEN 2 ELSE 0)

secondByteLate(dataLength) ==
  IF dataLength > 65536 THEN 127 ELSE IF dataLength > 125 THEN 126 ELSE dataLength

secondByte(dataLength) ==
  IF dataLength >= 65536 THEN 127 ELSE IF dataLength > 125 THEN 126 ELSE dataLength

mergeBuffersSmallOnly(dataLength, maskData, canModifyData) ==
  dataLength < 32768

mergeBuffers(dataLength, maskData, canModifyData) ==
  dataLength < 32768 \/ (maskData /\ ~canModifyData)

\* the first dataOffset bytes of outputBuffer
FrameHeaderRsv2(opcode, dataLength, fin, maskData, compress, key) ==
  LET b0  == IF fin THEN BitOr(opcode, 128) ELSE opcode
      b0c == IF compress THEN BitOr(b0, 32) ELSE b0
      sb  == IF dataLength >= 65536 THEN 127 ELSE IF dataLength > 125 THEN 126 ELSE dataLength
      ext == IF sb = 126 THEN writeUInt16BE(dataLength)
             ELSE IF sb = 127 THEN writeUInt32BE(0) \o writeUInt32BE(dataLength)
             ELSE <<>>
  IN  IF maskData THEN <<b0c, BitOr(sb, 128)>> \o ext \o key
      ELSE <<b0c, sb>> \o ext

FrameHeader(opcode, dataLength, fin, maskData, compress, key) ==
  LET b0  == IF fin THEN BitOr(opcode, 128) ELSE opcode
      b0c == IF compress THEN BitOr(b0, 64) ELSE b0
      sb  == secondByte(dataLength)
      ext == IF sb = 126 THEN writeUInt16BE(dataLength)
             ELSE IF sb = 127 THEN writeUInt32BE(0) \o writeUInt32BE(dataLength)
             ELSE <<>>
  IN  IF maskData THEN <<b0c, BitOr(sb, 128)>> \o ext \o key
      ELSE <<b0c, sb>> \o ext

FrameWritesUnmaskedPayload(opcode, data, fin, maskData, canModifyData, compress, key) ==
  LET dataLength == BLen(data)
      hdr == FrameHeader(opcode, dataLength, fin, maskData, compress, key)
  IN  IF mergeBuffers(dataLength, maskData, canModifyData)
      THEN << Prepend(hdr, IF maskData THEN bufferUtilMask(data, key) ELSE data) >>
      ELSE << Bytes(hdr), data >>

\* the buffers _frame_and_send hands to socket.write, in order
FrameWrites(opcode, data, fin, maskData, canModifyData, compress, key) ==
  LET dataLength == BLen(data)
      hdr == FrameHeader(opcode, dataLength, fin, maskData, compress, key)
  IN  IF maskData
      THEN IF mergeBuffers(dataLength, maskData, canModifyData)
           THEN << Prepend(hdr, bufferUtilMask(data, key)) >>
           ELSE << Bytes(hdr), bufferUtilMask(data, key) >>
      ELSE IF mergeBuffers(dataLength, maskData, canModifyData)
           THEN << Prepend(hdr, data) >>
           ELSE << Bytes(hdr), data >>

CatchWriteErrorEmit(cb) == <<"event">>

\* catch (e) { if (typeof cb == 'function') cb(e); else self.emit('error', e); }
CatchWriteError(cb) == IF cb THEN <<"cb">> ELSE <<"event">>

\* the writes of a frame reach the socket last one first
TryWritesReversed(id, bufs, cb, fail) ==
  LET ok == IF fail = 0 THEN Len(bufs) ELSE fail - 1
      h  == CatchWriteError(cb)
  IN  /\ wire' = wire \o [i \in 1..ok |->
                    [id |-> id, buf |-> bufs[Len(bufs) + 1 - i],
                     cb |-> (cb /\ i = 1),
                     part |-> IF Len(bufs) = 1 THEN "frame"
                              ELSE IF i = Len(bufs) THEN "header" ELSE "payload"]]
      /\ IF fail = 0
         THEN UNCHANGED <<errs, failedWrites>>
         ELSE /\ failedWrites' = Append(failedWrites, id)
              /\ errs' = errs \o [j \in 1..Len(h) |->
                           [id |-> id, via |-> h[j], kind |-> "TransportWriteFailure"]]

\* try { socket.write(...); [socket.write(..., cb);] } catch (e) {...} where
\* write number `fail` throws (0: none does); cb rides on the last write
TryWrites(id, bufs, cb, fail) ==
  LET ok == IF fail = 0 THEN Len(bufs) ELSE fail - 1
      h  == CatchWriteError(cb)
  IN  /\ wire' = wire \o [i \in 1..ok |->
                    [id |-> id, buf |-> bufs[i], cb |-> (cb /\ i = Len(bufs)),
                     part |-> IF Len(bufs) = 1 THEN "frame"
                              ELSE IF i = 1 THEN "header" ELSE "payload"]]
      /\ IF fail = 0
         THEN UNCHANGED <<errs, failedWrites>>
         ELSE /\ failedWrites' = Append(failedWrites, id)
              /\ errs' = errs \o [j \in 1..Len(h) |->
                           [id |-> id, via |-> h[j], kind |-> "TransportWriteFailure"]]

\* owner says whose object `data` is: "caller" when it is the Buffer the
\* caller passed in, "encoder" when the encoder made it (a copy of a
\* non-Buffer input, or the slice of cdata)
FrameAndSendInner(id, opcode, data, fin, maskData, canModifyData, compress, cb, Fails, owner) ==
  \E key \in (IF maskData /\ randomMask = <<>> THEN getRandomMask ELSE {randomMask}) :
    LET bufs == FrameWrites(opcode, data, fin, maskData, canModifyData, compress, key) IN
    /\ randomMask' = IF maskData THEN key ELSE randomMask
    /\ inPlace' = IF maskData /\ ~mergeBuffers(BLen(data), maskData, canModifyData)
                  THEN Append(inPlace, [id |-> id, owner |-> owner])
                  ELSE inPlace
    /\ \E fail \in Fails \cap (0..Len(bufs)) : TryWrites(id, bufs, cb, fail)

\* ------------------------------------------------------------------
\* Sender.prototype.frameAndSend
\* ------------------------------------------------------------------
EmptyFrameNoMaskBytes(opcode, fin, maskData) ==
  Bytes(<< BitOr(opcode, IF fin THEN 128 ELSE 0), BitOr(0, IF maskData THEN 128 ELSE 0) >>)

EmptyFrame(opcode, fin, maskData) ==
  Bytes(<< BitOr(opcode, IF fin THEN 128 ELSE 0), BitOr(0, IF maskData THEN 128 ELSE 0) >>
        \o (IF maskData THEN <<0, 0, 0, 0>> ELSE <<>>))

ToBuffer(message_data) ==
  IF isBuffer(message_data) THEN message_data.buf
  ELSE IF message_data.t = "view" THEN getArrayBuffer(message_data)
  ELSE NewBufferFromString(message_data.buf)

NewJob(opcode, data, fin, maskData, canModifyData, cb) ==
  [opcode |-> opcode, fin |-> fin, mask |-> maskData, canModifyData |-> canModifyData,
   cb |-> cb, out |-> Deflate(data), cdata |-> Bytes(<<>>), chunks |-> 0]

\* every input counts as the encoder's own buffer
CanModifyAlways(message_data) == TRUE

\* canModifyData: set only when the input had to be converted to a Buffer
CanModify(message_data) == ~isBuffer(message_data)

frameAndSend(id, opcode, message_data, fin, maskData, compress, cb, Fails) ==
  IF Falsy(message_data)
  THEN /\ \E fail \in Fails \cap (0..1) :
            TryWrites(id, << EmptyFrame(opcode, fin, maskData) >>, cb, fail)
       /\ UNCHANGED <<randomMask, jobs, inPlace>>
  ELSE LET canModifyData == CanModify(message_data)
           data == ToBuffer(message_data)
       IN  IF compress
           THEN /\ jobs' = (id :> NewJob(opcode, data, fin, maskData, canModifyData, cb)) @@ jobs
                /\ UNCHANGED <<randomMask, wire, errs, failedWrites, inPlace>>
           ELSE /\ FrameAndSendInner(id, opcode, data, fin, maskData, canModifyData,
                                     FALSE, cb, Fails,
                                     IF isBuffer(message_data) THEN "caller" ELSE "encoder")
                /\ UNCHANGED jobs

\* ------------------------------------------------------------------
\* Public operations.  An options argument is a record of the fields the
\* code reads; fin is "undefined", "true" or "false".
\* ------------------------------------------------------------------
NextId == Len(calls) + 1

\* Sender.prototype.send(data, options, cb)
SendOpcodeNoContinuation(binary, ff) == IF binary THEN 2 ELSE 1

SendOpcode(binary, ff) ==
  LET opcode == IF binary THEN 2 ELSE 1 IN
  IF ff = FALSE THEN 0 ELSE opcode

\* lines 79-81: the value of this.firstFragment when send returns
SendFirstFragmentKeep(ff, finalFragment) ==
  IF finalFragment THEN TRUE ELSE ff

SendFirstFragment(ff, finalFragment) ==
  LET ff1 == IF ff = FALSE THEN ff ELSE FALSE IN
  IF finalFragment THEN TRUE ELSE ff1

send(data, options, cb, Fails) ==
  LET finalFragment == IF options.fin = "false" THEN FALSE ELSE TRUE
      maskData == options.mask
      opcode == SendOpcode(options.binary, firstFragment)
      compress == options.compress
  IN  /\ firstFragment' = SendFirstFragment(firstFragment, finalFragment)
      /\ calls' = Append(calls, CallRec("send", TRUE, firstFragment, opcode, data,
                                        finalFragment, maskData, compress, cb, options))
      /\ frameAndSend(NextId, opcode, data, finalFragment, maskData, compress, cb, Fails)

\* Sender.prototype.ping(data, options) and Sender.prototype.pong(data, options)
ControlOpcodeContinuation(op) ==
  IF firstFragment = FALSE THEN 0 ELSE IF op = "ping" THEN 9 ELSE 10

ControlOpcode(op) == IF op = "ping" THEN 9 ELSE 10

pingpongCompress(op, data, options, Fails) ==
  LET maskData == options.mask
      opcode == ControlOpcode(op)
      message_data == IF Falsy(data) THEN Str(Bytes(<<>>)) ELSE data
  IN  /\ calls' = Append(calls, CallRec(op, TRUE, firstFragment, opcode, message_data,
                                        TRUE, maskData, options.compress, FALSE, options))
      /\ frameAndSend(NextId, opcode, message_data, TRUE, maskData, options.compress,
                      FALSE, Fails)
      /\ UNCHANGED firstFragment

pingpong(op, data, options, Fails) ==
  LET maskData == options.mask
      opcode == ControlOpcode(op)
      message_data == IF Falsy(data) THEN Str(Bytes(<<>>)) ELSE data
  IN  /\ calls' = Append(calls, CallRec(op, TRUE, firstFragment, opcode, message_data,
                                        TRUE, maskData, FALSE, FALSE, options))
      /\ frameAndSend(NextId, opcode, message_data, TRUE, maskData, FALSE, FALSE, Fails)
      /\ UNCHANGED firstFragment

ping(data, options, Fails) == pingpong("ping", data, options, Fails)

pong(data, options, Fails) == pingpong("pong", data, options, Fails)

\* Sender.prototype.close(code, data, mask)
CloseRejectsNonNumbers(code) ==
  code.t # "undefined" /\ code.t # "number"

CloseRejects(code) ==
  code.t # "undefined" /\ (code.t # "number" \/ ~isValidErrorCode(code.v))

ClosePayloadNoDefault(code, data) ==
  IF code.t = "undefined" THEN Bytes(<<>>)
  ELSE Bytes(writeUInt16BE(code.v) \o (IF Falsy(data) THEN <<>> ELSE Utf8(data.buf.pre)))

ClosePayload(code, data) ==
  LET c == IF code.t = "undefined" \/ code.v = 0 THEN 1000 ELSE code.v
      length == 2 + (IF Falsy(data) THEN 0 ELSE byteLength(data.buf.pre))
  IN  Bytes(writeUInt16BE(c) \o (IF length > 2 THEN Utf8(data.buf.pre) ELSE <<>>))

close(code, data, maskData, Fails) ==
  LET args == [code |-> code, data |-> data] IN
  IF CloseRejects(code)
  THEN /\ calls' = Append(calls, CallRec("close", FALSE, firstFragment, 8, data,
                                         TRUE, maskData, FALSE, FALSE, args))
       /\ errs' = Append(errs, [id |-> NextId, via |-> "throw", kind |-> "InvalidCloseCode"])
       /\ UNCHANGED <<firstFragment, randomMask, jobs, wire, failedWrites, inPlace>>
  ELSE LET dataBuffer == Buffer(ClosePayload(code, data)) IN
       /\ calls' = Append(calls, CallRec("close", TRUE, firstFragment, 8, dataBuffer,
                                         TRUE, maskData, FALSE, FALSE, args))
       /\ frameAndSend(NextId, 8, dataBuffer, TRUE, maskData, FALSE, FALSE, Fails)
       /\ UNCHANGED firstFragment

\* ------------------------------------------------------------------
\* Events of a call's deflate stream
\* ------------------------------------------------------------------
DropJob(id) == [i \in (DOMAIN jobs) \ {id} |-> jobs[i]]

\* where the stream may end the chunk it emits next
ChunkEnds(job) ==
  LET l == BLen(job.out) IN
  IF job.chunks + 1 >= MaxChunks THEN {l}
  ELSE {l} \cup { k \in {l - 2} :
                    /\ 0 < k /\ k < l
                    /\ (k <= Len(job.out.pre) \/ k >= Len(job.out.pre) + job.out.n) }

\* deflate_stream.on('data', function(chunk) {...})
DeflateData(id) ==
  /\ id \in DOMAIN jobs
  /\ BLen(jobs[id].out) > 0
  /\ \E k \in ChunkEnds(jobs[id]) :
       jobs' = [jobs EXCEPT ![id] =
                  [@ EXCEPT !.cdata = BufConcat(@, BufTake(jobs[id].out, k)),
                            !.out = BufDrop(@, k),
                            !.chunks = @ + 1]]
  /\ UNCHANGED <<firstFragment, randomMask, wire, errs, failedWrites, calls, inPlace>>

\* the opcode of a data frame is worked out again when the stream ends
DeflateEndLate(id, Fails) ==
  /\ id \in DOMAIN jobs
  /\ BLen(jobs[id].out) = 0
  /\ LET job == jobs[id]
         opcode == IF job.opcode \in {1, 2} /\ ~firstFragment THEN 0 ELSE job.opcode
     IN
     FrameAndSendInner(id, opcode, SliceOffEnd(job.cdata, 6), job.fin, job.mask,
                       job.canModifyData, TRUE, job.cb, Fails, "encoder")
  /\ jobs' = DropJob(id)
  /\ UNCHANGED <<firstFragment, calls>>

\* deflate_stream.on('end', function() {...})
DeflateEnd(id, Fails) ==
  /\ id \in DOMAIN jobs
  /\ BLen(jobs[id].out) = 0
  /\ LET job == jobs[id] IN
     FrameAndSendInner(id, job.opcode, SliceOffEnd(job.cdata, 6), job.fin, job.mask,
                       job.canModifyData, TRUE, job.cb, Fails, "encoder")
  /\ jobs' = DropJob(id)
  /\ UNCHANGED <<firstFragment, calls>>

\* deflate_stream.on('error', function(err) { throw new Error(err); })
OnDeflateError(cb) == <<"throw">>

DeflateError(id) ==
  /\ id \in DOMAIN jobs
  /\ LET h == OnDeflateError(jobs[id].cb) IN
     errs' = errs \o [j \in 1..Len(h) |->
               [id |-> id, via |-> h[j], kind |-> "CompressionFailure"]]
  /\ jobs' = DropJob(id)
  /\ UNCHANGED <<firstFragment, randomMask, wire, failedWrites, calls, inPlace>>

\* ------------------------------------------------------------------
\* Inputs and specifications
\* ------------------------------------------------------------------
Hi == Str(Bytes(<<104, 105>>))

Options(F, M, B, C) == [fin : F, mask : M, binary : B, compress : C]

NoFail == {0}
AnyFail == {0, 1, 2}

\* Fragmented and whole messages, compressed or not, with control frames
\* in between
CanCall == Len(calls) < MaxCalls

DoSend == /\ CanCall
          /\ \E o \in Options({"undefined", "false"}, {FALSE}, BOOLEAN, BOOLEAN) :
               send(Hi, o, FALSE, NoFail)
DoPing == CanCall /\ ping(Hi, [mask |-> FALSE, compress |-> FALSE], NoFail)
DoPong == CanCall /\ pong(Undefined, [mask |-> FALSE, compress |-> FALSE], NoFail)
DoClose == CanCall /\ close(NumCode(1001), Undefined, FALSE, NoFail)
OnData == \E id \in DOMAIN jobs : DeflateData(id)
OnEnd == \E id \in DOMAIN jobs : DeflateEnd(id, NoFail)
OnError == \E id \in DOMAIN jobs : DeflateError(id)

Next == DoSend \/ DoPing \/ DoPong \/ DoClose \/ OnData \/ OnEnd \/ OnError

Spec == Init /\ [][Next]_vars

\* Failing socket writes and failing deflate streams, with and without a
\* completion callback, in the one-write and the two-write path
MaxErrCalls == 2

BigStr == Str(Fill(32768, 97))

CanCallErr == Len(calls) < MaxErrCalls

ErrSend == /\ CanCallErr
           /\ \E dm \in {<<Hi, TRUE>>, <<BigStr, TRUE>>, <<BigStr, FALSE>>}, cb \in BOOLEAN,
                 o \in Options({"undefined"}, BOOLEAN, {FALSE}, BOOLEAN) :
                o.mask = dm[2] /\ send(dm[1], o, cb, AnyFail)
ErrPing == CanCallErr /\ ping(Hi, [mask |-> FALSE, compress |-> FALSE], AnyFail)
ErrPong == CanCallErr /\ pong(Undefined, [mask |-> TRUE, compress |-> FALSE], AnyFail)
ErrClose == CanCallErr /\ close(NoCode, Undefined, FALSE, AnyFail)
ErrEnd == \E id \in DOMAIN jobs : DeflateEnd(id, AnyFail)

NextErr == ErrSend \/ ErrPing \/ ErrPong \/ ErrClose \/ OnData \/ ErrEnd \/ OnError

SpecErr == Init /\ [][NextErr]_vars

\* close with every kind of code and reason, on an encoder whose state a
\* masked fragment has changed
MaxCloseCalls == 2

Bye == Str(Bytes(<<98, 121, 101>>))
Cafe == Str(Bytes(<<99, 97, 102, 233>>))

CloseCodes == { NoCode, NumCode(0), NumCode(999), NumCode(1000), NumCode(1005),
                NumCode(4999), StrCode(1000) }

CanCallClose == Len(calls) < MaxCloseCalls

CloseSend == /\ CanCallClose
             /\ send(Hi, [fin |-> "false", mask |-> TRUE, binary |-> FALSE,
                          compress |-> FALSE], FALSE, NoFail)
CloseClose == /\ CanCallClose
              /\ \E c \in CloseCodes, r \in {Undefined, Str(Bytes(<<>>)), Bye, Cafe},
                    m \in BOOLEAN :
                   close(c, r, m, NoFail)

NextClose == CloseSend \/ CloseClose

SpecClose == Init /\ [][NextClose]_vars

\* One frame of every kind: payloads of every type and of the lengths at
\* which the header or the number of writes changes, masked or not,
\* compressed or not
MaxFrameCalls == 1

BufferOf(n) == Buffer(Fill(n, 7))

FrameData ==
  { Undefined, Str(Bytes(<<>>)), Hi, BigStr,
    View(Bytes(<<9, 8, 7, 6>>), 1, 2), View(Bytes(<<9, 8, 7, 6>>), 1, 0),
    Buffer(Bytes(<<>>)), Buffer(Bytes(<<66>>)), Buffer(Bytes(<<1, 2, 3, 4, 5>>)) }
  \cup { BufferOf(n) : n \in {125, 126, 32767, 32768, 65535, 65536} }

\* the stored block of the deflate stream holds at most 65535 bytes
Deflatable(d) == BLen(d.buf) < 65536

CanCallFrame == Len(calls) < MaxFrameCalls

FrameSend == /\ CanCallFrame
             /\ \E d \in FrameData, cb \in BOOLEAN,
                   o \in Options({"undefined", "false"}, BOOLEAN, {FALSE}, BOOLEAN) :
                  /\ cb => d \in {Hi, BigStr, BufferOf(32768)}
                  /\ o.compress => Deflatable(d)
                  /\ send(d, o, cb, NoFail)
FramePing == /\ CanCallFrame
             /\ \E d \in {Undefined, Hi, Buffer(Bytes(<<>>))}, m \in BOOLEAN, c \in BOOLEAN :
                  ping(d, [mask |-> m, compress |-> c], NoFail)
FramePong == /\ CanCallFrame
             /\ \E d \in {Undefined, Hi}, m \in BOOLEAN :
                  pong(d, [mask |-> m, compress |-> TRUE], NoFail)
FrameClose == CanCallFrame /\ \E m \in BOOLEAN : close(NumCode(1000), Bye, m, NoFail)

NextFrame == FrameSend \/ FramePing \/ FramePong \/ FrameClose \/ OnData \/ OnEnd \/ OnError

SpecFrame == Init /\ [][NextFrame]_vars

\* Uncompressed frames of the lengths at which the header width changes
MaxLenCalls == 2

CanCallLen == Len(calls) < MaxLenCalls

LenSend == /\ CanCallLen
           /\ \E d \in {Str(Bytes(<<>>)), Buffer(Bytes(<<>>)), Buffer(Bytes(<<66>>))}
                       \cup { BufferOf(n) : n \in {125, 126, 65535, 65536} },
                 m \in BOOLEAN :
                send(d, [fin |-> "undefined", mask |-> m, binary |-> TRUE,
                         compress |-> FALSE], FALSE, NoFail)
LenPing == /\ CanCallLen
           /\ \E d \in {Undefined, BufferOf(125)}, m \in BOOLEAN :
                ping(d, [mask |-> m, compress |-> FALSE], NoFail)

NextLen == LenSend \/ LenPing

SpecLen == Init /\ [][NextLen]_vars

\* ------------------------------------------------------------------
\* Reading the transport
\* ------------------------------------------------------------------
IsControl(c) == c.op \in {"ping", "pong", "close"}

\* the writes that begin a frame
FrameStarts == { p \in DOMAIN wire : wire[p].part \in {"frame", "header"} }

\* Calls whose compression completes later, or fails, or whose write
\* fails; every deflate stream that was started eventually emits its next
\* event
MaxLiveCalls == 2

CanCallLive == Len(calls) < MaxLiveCalls

LiveSend == /\ CanCallLive
            /\ \E o \in Options({"undefined", "false"}, {FALSE}, {FALSE}, BOOLEAN) :
                 send(Hi, o, FALSE, {0, 1})
LivePing == CanCallLive /\ ping(Undefined, [mask |-> FALSE, compress |-> FALSE], NoFail)
LivePong == CanCallLive /\ pong(Hi, [mask |-> FALSE, compress |-> FALSE], NoFail)
LiveClose == CanCallLive /\ \E c \in {NumCode(1000), NumCode(999)} :
                              close(c, Undefined, FALSE, NoFail)
LiveEnd == \E id \in DOMAIN jobs : DeflateEnd(id, {0, 1})
LiveStream == OnData \/ LiveEnd \/ OnError

NextLive == LiveSend \/ LivePing \/ LivePong \/ LiveClose \/ OnData \/ LiveEnd \/ OnError

SpecLive == Init /\ [][NextLive]_vars /\ WF_vars(LiveStream)

\* decoding of a frame written in one write with all of its bytes in pre
WireMasked(w) == w.buf.pre[2] >= 128
WireLen7(w) == w.buf.pre[2] % 128
WireExt(w) == IF WireLen7(w) = 126 THEN 2 ELSE IF WireLen7(w) = 127 THEN 8 ELSE 0
WireKey(w) == SubSeq(w.buf.pre, 3 + WireExt(w), 6 + WireExt(w))
WirePayload(w) ==
  LET off == 2 + WireExt(w) + (IF WireMasked(w) THEN 4 ELSE 0)
      raw == SubSeq(w.buf.pre, off + 1, Len(w.buf.pre))
  IN  IF WireMasked(w)
      THEN [j \in 1..Len(raw) |-> BitXor(raw[j], WireKey(w)[((j - 1) % 4) + 1])]
      ELSE raw

WireOpcode(w) == w.buf.pre[1] % 16
WireFin(w) == w.buf.pre[1] >= 128
WireRsv1(w) == (w.buf.pre[1] \div 64) % 2 = 1

SendCalls == { i \in DOMAIN calls : calls[i].op = "send" }

\* the message a send call belongs to: messages end at a send with fin
MessageOf(i) == Cardinality({ j \in SendCalls : j < i /\ calls[j].fin })

OnWire(i) == \E p \in FrameStarts : wire[p].id = i

\* every fragment of message m has been called and is on the transport
MessageOnWire(m) ==
  /\ \E i \in SendCalls : MessageOf(i) = m /\ calls[i].fin
  /\ \A i \in SendCalls : MessageOf(i) = m => OnWire(i)

\* ------------------------------------------------------------------
\* Claims
\* ------------------------------------------------------------------

\* C1: frames reach the transport in the order in which their calls were
\* invoked, whatever the mix of compressed and uncompressed sends and
\* whatever order the compression jobs complete in.
C1_FramesInCallOrder ==
  \A p, q \in DOMAIN wire : p < q => wire[p].id <= wire[q].id

\* C2: the fragments of one logical message appear on the wire as the real
\* opcode (1 or 2) first and continuation opcodes 0 after it, with exactly
\* one non-zero opcode, and first_fragment is true again after the final
\* fragment.
C2_FragmentOpcodesOnWire ==
  \A i \in SendCalls :
    /\ MessageOnWire(MessageOf(i)) =>
         \A p \in FrameStarts : wire[p].id = i =>
           LET first == ~\E q \in FrameStarts :
                           /\ q < p
                           /\ wire[q].id \in SendCalls
                           /\ MessageOf(wire[q].id) = MessageOf(i)
           IN  /\ first => WireOpcode(wire[p]) \in {1, 2}
               /\ ~first => WireOpcode(wire[p]) = 0
    /\ (calls[i].fin /\ i = Len(calls)) => firstFragment = TRUE
    /\ (calls[i].fin /\ i < Len(calls)) => calls[i + 1].ffBefore = TRUE

\* C3: the opcode a send call passes to the frame builder is the real
\* opcode (2 if binary, else 1) exactly when first_fragment was true before
\* the call and 0 otherwise, whatever control frames came in between; the
\* frame written for the call carries that opcode.
C3_SendOpcode ==
  /\ \A i \in SendCalls :
       calls[i].opcode = IF calls[i].ffBefore
                         THEN (IF calls[i].args.binary THEN 2 ELSE 1)
                         ELSE 0
  /\ \A p \in FrameStarts :
       wire[p].id \in SendCalls => WireOpcode(wire[p]) = calls[wire[p].id].opcode

C3_Witness ==
  \E i \in SendCalls :
    /\ i > 1 /\ IsControl(calls[i - 1])
    /\ ~calls[i].ffBefore /\ calls[i].args.binary
    /\ OnWire(i)

\* C4: a new encoder starts with first_fragment true, and after any send
\* first_fragment equals that call's fin flag (fin defaulting to true).
C4_FirstFragmentIsFin ==
  /\ SendCalls = {} => firstFragment = TRUE
  /\ \A i \in SendCalls :
       LET fin == calls[i].args.fin # "false" IN
       /\ i < Len(calls) => calls[i + 1].ffBefore = fin
       /\ i = Len(calls) => firstFragment = fin

C4_Witness ==
  /\ \E i \in SendCalls : ~calls[i].ffBefore /\ calls[i].args.fin = "undefined"
  /\ \E i \in SendCalls : ~calls[i].ffBefore /\ calls[i].args.fin = "false"
  /\ \E i \in SendCalls : calls[i].ffBefore /\ calls[i].args.fin = "false"

\* C5: ping, pong and close never read or change first_fragment: it has the
\* same value before and after a control call, the frame the call emits
\* (opcode 0x9, 0xA or 0x8 with fin set) is the same in MessageStart and in
\* MessageMid, and the fragment that follows it keeps its opcode.
C5_ControlFramesIgnoreFragmentation ==
  \A i \in DOMAIN calls : (IsControl(calls[i]) /\ calls[i].accepted) =>
    /\ i < Len(calls) => calls[i + 1].ffBefore = calls[i].ffBefore
    /\ i = Len(calls) => firstFragment = calls[i].ffBefore
    /\ calls[i].opcode = (CASE calls[i].op = "ping" -> 9
                            [] calls[i].op = "pong" -> 10
                            [] calls[i].op = "close" -> 8)
    /\ \A p \in FrameStarts : wire[p].id = i =>
         /\ WireOpcode(wire[p]) = calls[i].opcode
         /\ WireFin(wire[p])
         /\ \A q \in FrameStarts :
              (/\ calls[wire[q].id].op = calls[i].op
               /\ calls[wire[q].id].args = calls[i].args) => wire[q].buf = wire[p].buf
    /\ (i < Len(calls) /\ calls[i + 1].op = "send" /\ ~calls[i].ffBefore)
         => calls[i + 1].opcode = 0

C5_Witness ==
  /\ firstFragment = FALSE
  /\ \E i, j \in DOMAIN calls :
       /\ calls[i].op = "ping" /\ calls[j].op = "ping"
       /\ calls[i].ffBefore /\ ~calls[j].ffBefore
       /\ j = Len(calls)
       /\ OnWire(i) /\ OnWire(j)

\* the errors of call id and the number of its socket writes that threw
ErrsOf(id, kind) == SelectSeq(errs, LAMBDA e : e.id = id /\ e.kind = kind)
FailuresOf(id) == Cardinality({ k \in DOMAIN failedWrites : failedWrites[k] = id })

\* the argument is provided but is not a number or not a legal close code
BadCloseCode(code) ==
  \/ code.t \notin {"undefined", "number"}
  \/ (code.t = "number" /\ ~isValidErrorCode(code.v))

CloseCalls == { i \in DOMAIN calls : calls[i].op = "close" }

\* C6: close with a code that is provided but is not a number or not a
\* valid close code throws InvalidCloseCode synchronously; nothing is
\* written, no callback or error event is used, and first_fragment and the
\* cached mask key are unchanged.
C6_InvalidCloseCode ==
  /\ [](\A i \in CloseCalls : BadCloseCode(calls[i].args.code) =>
          /\ ~calls[i].accepted
          /\ \A p \in DOMAIN wire : wire[p].id # i
          /\ \A k \in DOMAIN errs : errs[k].id = i =>
               (errs[k].via = "throw" /\ errs[k].kind = "InvalidCloseCode")
          /\ Len(ErrsOf(i, "InvalidCloseCode")) = 1)
  /\ [][(/\ Len(calls') = Len(calls) + 1
         /\ calls'[Len(calls')].op = "close"
         /\ BadCloseCode(calls'[Len(calls')].args.code))
        => (/\ errs' = Append(errs, [id |-> Len(calls'), via |-> "throw",
                                     kind |-> "InvalidCloseCode"])
            /\ UNCHANGED <<firstFragment, randomMask, wire, jobs, failedWrites, inPlace>>)]_vars

C6_Witness ==
  /\ Len(calls) = 2
  /\ calls[2].op = "close" /\ calls[2].args.code = NumCode(999)
  /\ ~calls[2].accepted
  /\ firstFragment = FALSE /\ randomMask # <<>> /\ Len(wire) = 1

\* C7: a failing transport write is delivered to the call's completion
\* callback if one was supplied and otherwise as an error event on the
\* encoder, exactly one of the two and exactly once per call, and is never
\* thrown out of the operation that attempted the write.
C7_WriteFailureDelivery ==
  \A i \in DOMAIN calls :
    LET d == ErrsOf(i, "TransportWriteFailure") IN
    /\ FailuresOf(i) <= 1
    /\ Len(d) = FailuresOf(i)
    /\ \A k \in DOMAIN d : d[k].via = IF calls[i].cb THEN "cb" ELSE "event"

C7_Witness ==
  /\ \E i \in SendCalls :
       /\ calls[i].cb /\ calls[i].compress /\ FailuresOf(i) = 1
       /\ \E p \in DOMAIN wire : wire[p].id = i /\ wire[p].part = "header"
       /\ Len(ErrsOf(i, "TransportWriteFailure")) = 1
  /\ \E i \in DOMAIN calls :
       /\ IsControl(calls[i]) /\ FailuresOf(i) = 1
       /\ ErrsOf(i, "TransportWriteFailure")[1].via = "event"

\* C8: an error of the deflate stream during a compressed send is surfaced
\* like a transport write failure (to the callback if supplied, otherwise
\* as an error event, never as a thrown exception), once, and no frame of
\* that send is written.
C8_DeflateErrorDelivery ==
  \A k \in DOMAIN errs : errs[k].kind = "CompressionFailure" =>
    LET i == errs[k].id IN
    /\ errs[k].via = IF calls[i].cb THEN "cb" ELSE "event"
    /\ Len(ErrsOf(i, "CompressionFailure")) = 1
    /\ ~OnWire(i)

\* the frame written for call i, when the call wrote exactly one buffer
FramesOf(i) == { p \in DOMAIN wire : wire[p].id = i }
FrameOf(i) == wire[CHOOSE p \in FramesOf(i) : TRUE]

IsNoReason(data) == data.t = "undefined" \/ BLen(data.buf) = 0

\* C9: close called with no code emits a close frame with no payload at
\* all, distinguishable from close called with a code and no reason.
C9_CloseNoCodeEmptyPayload ==
  \A i \in CloseCalls :
    (calls[i].accepted /\ calls[i].args.code = NoCode /\ FramesOf(i) # {}) =>
      /\ WireLen7(FrameOf(i)) = 0
      /\ WirePayload(FrameOf(i)) = <<>>
      /\ \A j \in CloseCalls :
           (/\ calls[j].accepted /\ calls[j].args.code # NoCode
            /\ IsNoReason(calls[j].args.data) /\ FramesOf(j) # {})
           => FrameOf(j).buf # FrameOf(i).buf

\* C9 as amended: close called with no code emits a close frame whose
\* payload begins with the 2-byte code field holding the default code 1000
\* (03 E8); with no reason the payload is exactly these 2 bytes and the
\* frame equals the one of close(1000) with no reason.
C9_CloseNoCodeDefaults ==
  \A i \in CloseCalls :
    (calls[i].accepted /\ calls[i].args.code = NoCode /\ FramesOf(i) # {}) =>
      /\ WireLen7(FrameOf(i)) >= 2
      /\ SubSeq(WirePayload(FrameOf(i)), 1, 2) = <<3, 232>>
      /\ IsNoReason(calls[i].args.data) =>
           /\ WireLen7(FrameOf(i)) = 2
           /\ \A j \in CloseCalls :
                (/\ calls[j].accepted /\ calls[j].args.code = NumCode(1000)
                 /\ IsNoReason(calls[j].args.data)
                 /\ calls[j].mask = calls[i].mask /\ FramesOf(j) # {})
                => FrameOf(j).buf = FrameOf(i).buf

C9_Witness ==
  \E i, j \in CloseCalls :
    /\ calls[i].args.code = NoCode /\ calls[i].args.data = Undefined
    /\ calls[j].args.code = NumCode(1000) /\ calls[j].args.data = Undefined
    /\ calls[i].mask /\ calls[j].mask
    /\ FramesOf(i) # {} /\ FramesOf(j) # {}

\* C10: close with a valid code and a reason emits exactly one frame with
\* opcode 0x8, fin set and RSV1 clear, whose payload has length
\* 2 + byteLength(reason) and is the code as a big-endian 16-bit integer
\* followed by the reason bytes (1000 and "bye" give 03 E8 'b' 'y' 'e');
\* when the code is omitted the code written is 1000.
C10_ClosePayload ==
  \A i \in CloseCalls :
    ~BadCloseCode(calls[i].args.code) =>
      LET code == IF calls[i].args.code = NoCode THEN 1000 ELSE calls[i].args.code.v
          reason == IF IsNoReason(calls[i].args.data) THEN <<>>
                    ELSE Utf8(calls[i].args.data.buf.pre)
          w == FrameOf(i)
      IN  /\ Cardinality(FramesOf(i)) = 1
          /\ w.part = "frame"
          /\ WireOpcode(w) = 8 /\ WireFin(w) /\ ~WireRsv1(w)
          /\ (w.buf.pre[1] \div 16) % 4 = 0
          /\ WireMasked(w) = calls[i].mask
          /\ WireLen7(w) = 2 + Len(reason)
          /\ Len(WirePayload(w)) = 2 + Len(reason)
          /\ WirePayload(w) = <<code \div 256, code % 256>> \o reason
          /\ (code = 1000 /\ calls[i].args.data = Bye)
               => WirePayload(w) = <<3, 232, 98, 121, 101>>
          /\ (code = 4999 /\ calls[i].args.data = Cafe)
               => WirePayload(w) = <<19, 135, 99, 97, 102, 195, 169>>

C10_Witness ==
  \E i, j \in CloseCalls :
    /\ calls[i].args.code = NumCode(1000) /\ calls[i].args.data = Bye /\ calls[i].mask
    /\ calls[j].args.code = NoCode /\ calls[j].args.data = Cafe /\ ~calls[j].mask
    /\ FramesOf(i) # {} /\ FramesOf(j) # {}

\* ------------------------------------------------------------------
\* Decoding a frame of any length
\* ------------------------------------------------------------------
\* the write that begins the frame of call i
HeadOf(i) == wire[CHOOSE p \in FrameStarts : wire[p].id = i]

WireRsv23(w) == (w.buf.pre[1] \div 16) % 4

\* the payload length the header states
WireLength(w) ==
  LET h == w.buf.pre IN
  IF WireLen7(w) < 126 THEN WireLen7(w)
  ELSE IF WireLen7(w) = 126 THEN h[3] * 256 + h[4]
  ELSE h[7] * 16777216 + h[8] * 65536 + h[9] * 256 + h[10]

WireOffset(w) == 2 + WireExt(w) + (IF WireMasked(w) THEN 4 ELSE 0)

\* the payload region of the frame of call i, as written
WireBody(i) ==
  LET p == CHOOSE q \in FrameStarts : wire[q].id = i IN
  IF wire[p].part = "frame" THEN BufDrop(wire[p].buf, WireOffset(wire[p]))
  ELSE wire[p + 1].buf

XorBuf(b, key) ==
  Buf([j \in 1..Len(b.pre) |-> BitXor(b.pre[j], key[((j - 1) % 4) + 1])],
      b.n,
      [j \in 1..4 |-> BitXor(b.pat[j], key[((Len(b.pre) + j - 1) % 4) + 1])],
      [j \in 1..Len(b.post) |->
         BitXor(b.post[j], key[((Len(b.pre) + b.n + j - 1) % 4) + 1])])

\* the payload region of the frame of call i, unmasked with the key found
\* in the frame's header
WireUnmasked(i) ==
  IF WireMasked(HeadOf(i)) THEN XorBuf(WireBody(i), WireKey(HeadOf(i))) ELSE WireBody(i)

\* the bytes of the payload argument of call i
InputOf(i) ==
  IF Falsy(calls[i].data) THEN Bytes(<<>>) ELSE ToBuffer(calls[i].data)

\* C11: every frame emitted by ping or pong has opcode 0x9 or 0xA, fin set
\* and RSV1 = 0, for every data and options value, also with compress = true
\* in the options; the frame is written during the call.
C11_PingPongNeverCompressed ==
  \A i \in DOMAIN calls : calls[i].op \in {"ping", "pong"} =>
    /\ OnWire(i)
    /\ i \notin DOMAIN jobs
    /\ WireOpcode(HeadOf(i)) = (IF calls[i].op = "ping" THEN 9 ELSE 10)
    /\ WireFin(HeadOf(i))
    /\ ~WireRsv1(HeadOf(i))
    /\ WireUnmasked(i) = InputOf(i)

C11_Witness ==
  \E i \in DOMAIN calls :
    /\ calls[i].op = "ping" /\ calls[i].args.compress /\ calls[i].args.mask
    /\ calls[i].data = Hi
    /\ OnWire(i)

\* C12: every frame written has RSV1 set if and only if its payload was
\* produced by the compression adapter, the top bit of the first byte set
\* iff fin, the low 4 bits equal to the opcode, bit 0x80 of the second byte
\* set iff masked, and RSV2 and RSV3 clear.
C12_HeaderBits ==
  \A i \in DOMAIN calls : OnWire(i) =>
    LET w == HeadOf(i) IN
    /\ WireFin(w) = calls[i].fin
    /\ WireOpcode(w) = calls[i].opcode
    /\ WireMasked(w) = calls[i].mask
    /\ WireRsv23(w) = 0
    /\ WireRsv1(w) => WireUnmasked(i) = SliceOffEnd(Deflate(InputOf(i)), 6)
    /\ ~WireRsv1(w) => WireUnmasked(i) = InputOf(i)

C12_Witness ==
  \E i \in SendCalls :
    /\ calls[i].compress /\ calls[i].mask /\ ~calls[i].fin
    /\ calls[i].data = BufferOf(32768)
    /\ OnWire(i) /\ WireRsv1(HeadOf(i))

\* the header bytes that encode payload length n
LengthField(n) ==
  IF n < 126 THEN <<n>>
  ELSE IF n < 65536 THEN <<126, n \div 256, n % 256>>
  ELSE <<127, 0, 0, 0, 0, n \div 16777216, (n \div 65536) % 256, (n \div 256) % 256, n % 256>>

\* C13: for every payload length n in {0, 1, 125, 126, 65535, 65536},
\* masked or not, the header uses the documented width (7-bit field,
\* marker 126 and 16 bits, marker 127 and 64 bits, big-endian), the payload
\* starts at offset 2 + widthBytes + (4 if masked), and the length decoded
\* from the header equals n.
C13_LengthEncoding ==
  \A i \in DOMAIN calls : OnWire(i) =>
    LET w == HeadOf(i)
        n == BLen(InputOf(i))
        f == LengthField(n)
        off == 2 + (Len(f) - 1) + (IF calls[i].mask THEN 4 ELSE 0)
    IN  /\ WireLen7(w) = f[1]
        /\ SubSeq(w.buf.pre, 3, Len(f) + 1) = Tail(f)
        /\ WireLength(w) = n
        /\ WireOffset(w) = off
        /\ BLen(w.buf) = (IF w.part = "frame" THEN off + n ELSE off)
        /\ BLen(WireBody(i)) = n
        /\ WireBody(i) = (IF calls[i].mask
                          THEN XorBuf(InputOf(i), WireKey(w)) ELSE InputOf(i))

C13_Witness ==
  \E i, j \in SendCalls :
    /\ calls[i].data = BufferOf(65535) /\ ~calls[i].mask
    /\ calls[j].data = BufferOf(65536) /\ calls[j].mask
    /\ OnWire(i) /\ OnWire(j)
    /\ WireLen7(HeadOf(i)) = 126 /\ WireLen7(HeadOf(j)) = 127

\* the payload _frame_and_send is called with for call i
BuilderPayload(i) ==
  IF calls[i].compress /\ ~Falsy(calls[i].data)
  THEN BufTake(Deflate(InputOf(i)), BLen(Deflate(InputOf(i))) - 6)
  ELSE InputOf(i)

\* C14: for every masked send, in the single-write and in the two-write
\* path, XOR-ing byte i of the payload region on the transport with byte
\* i mod 4 of the mask key in that frame's header gives back the payload,
\* and the 4 mask bytes sit immediately before the payload region.
C14_UnmaskRecoversPayload ==
  \A i \in DOMAIN calls : (calls[i].mask /\ OnWire(i)) =>
    LET w == HeadOf(i) IN
    /\ WireMasked(w)
    /\ Len(WireKey(w)) = 4
    /\ w.part = "header" => BLen(w.buf) = 2 + WireExt(w) + 4
    /\ w.part = "frame" => BLen(w.buf) = 2 + WireExt(w) + 4 + WireLength(w)
    /\ BLen(WireBody(i)) = WireLength(w)
    /\ XorBuf(WireBody(i), WireKey(w)) = BuilderPayload(i)

C14_Witness ==
  \E i \in SendCalls :
    /\ calls[i].mask /\ calls[i].data = BigStr /\ ~calls[i].compress
    /\ OnWire(i) /\ HeadOf(i).part = "header"
    /\ WireBody(i) # BuilderPayload(i)

\* the one frame of a payload of zero length: the two header bytes and,
\* when masked, the four bytes `key` after them
HeaderOnly(c, key) ==
  Bytes(<< c.opcode + (IF c.fin THEN 128 ELSE 0), IF c.mask THEN 128 ELSE 0 >>
        \o (IF c.mask THEN key ELSE <<>>))

\* C15: for every payload of zero length, whatever its type (absent, empty
\* string, zero-length byte buffer) and whatever the operation, the encoder
\* performs one write of a header-only frame: [opcode | fin bit, masked
\* bit] with length 0, followed by exactly 4 zero mask bytes when masked.
C15_ZeroLengthHeaderOnly ==
  \A i \in DOMAIN calls :
    (calls[i].accepted /\ BLen(InputOf(i)) = 0 /\ i \notin DOMAIN jobs
       /\ ErrsOf(i, "CompressionFailure") = <<>>) =>
      /\ Cardinality(FramesOf(i)) = 1
      /\ FrameOf(i).buf = HeaderOnly(calls[i], <<0, 0, 0, 0>>)

\* C15 as amended: a payload that is absent or the empty string gives one
\* write of a header-only frame with 4 zero mask bytes when masked; a
\* zero-length byte buffer or typed array sent without compression also
\* gives one write of a header-only frame with length 0, but when masked
\* the 4 bytes after the header are the encoder's cached mask key.
C15_EmptyFastPath ==
  \A i \in DOMAIN calls :
    (calls[i].accepted /\ BLen(InputOf(i)) = 0) =>
      /\ Falsy(calls[i].data) =>
           /\ Cardinality(FramesOf(i)) = 1
           /\ FrameOf(i).buf = HeaderOnly(calls[i], <<0, 0, 0, 0>>)
      /\ (~Falsy(calls[i].data) /\ ~calls[i].compress) =>
           /\ Cardinality(FramesOf(i)) = 1
           /\ FrameOf(i).buf = HeaderOnly(calls[i], randomMask)

C15_Witness ==
  \E i, j \in SendCalls :
    /\ calls[i].data = Str(Bytes(<<>>)) /\ calls[i].mask
    /\ calls[j].data = Buffer(Bytes(<<>>)) /\ calls[j].mask
    /\ FramesOf(i) # {} /\ FramesOf(j) # {}
    /\ FrameOf(i).buf # FrameOf(j).buf

\* Inflating a raw deflate stream made of one stored block, the empty
\* stored block of a sync flush and the final empty block
InflateOk(b) ==
  LET h == b.pre
      len == h[2] + 256 * h[3]
  IN  /\ Len(h) >= 5 /\ h[1] = 0
      /\ h[4] = 255 - h[2] /\ h[5] = 255 - h[3]
      /\ BLen(b) = 5 + len + 7
      /\ BufDrop(BufDrop(b, 5), len) = Bytes(<<0, 0, 0, 255, 255, 3, 0>>)

Inflate(b) == BufTake(BufDrop(b, 5), b.pre[2] + 256 * b.pre[3])

\* C16: for every send that is compressed, the payload handed to the frame
\* builder is the concatenation, in emission order, of all output chunks of
\* the call's deflate stream with exactly the trailing 6 sync-flush trailer
\* bytes removed; re-attaching the trailer and inflating yields the input.
C16_CompressedPayload ==
  \A i \in DOMAIN calls :
    (calls[i].compress /\ ~Falsy(calls[i].data) /\ OnWire(i)) =>
    LET payload == WireUnmasked(i)
        whole == BufConcat(payload, Bytes(SyncFlushTrailer))
    IN  /\ WireRsv1(HeadOf(i))
        /\ BLen(payload) = BLen(Deflate(InputOf(i))) - 6
        /\ whole = Deflate(InputOf(i))
        /\ InflateOk(whole)
        /\ Inflate(whole) = InputOf(i)

C16_Witness ==
  \E i \in SendCalls :
    /\ calls[i].compress /\ calls[i].data = BigStr /\ calls[i].mask
    /\ OnWire(i) /\ WireRsv1(HeadOf(i))
    /\ HeadOf(i).part = "header"

\* The payload handed to the frame builder is the caller's own object only
\* when the caller passed a Buffer and it was not compressed.
CallerOwnedPayload(i) == calls[i].data.t = "buffer" /\ ~calls[i].compress

\* C17 (as stated): every non-empty frame is one write when the payload is
\* shorter than 32768 bytes or when it must be masked and is a caller-owned
\* buffer; otherwise two writes, header first and payload second, with the
\* completion callback on the last write only.
C17_WritesByPayloadOwner ==
  \A i \in DOMAIN calls :
    (calls[i].accepted /\ ~Falsy(calls[i].data) /\ FramesOf(i) # {}) =>
      LET n == BLen(BuilderPayload(i))
          p == CHOOSE q \in FramesOf(i) : \A r \in FramesOf(i) : q <= r
      IN  IF n < 32768 \/ (calls[i].mask /\ CallerOwnedPayload(i))
          THEN /\ Cardinality(FramesOf(i)) = 1
               /\ wire[p].part = "frame"
               /\ wire[p].cb = calls[i].cb
          ELSE /\ FramesOf(i) = {p, p + 1}
               /\ wire[p].part = "header" /\ wire[p + 1].part = "payload"
               /\ wire[p].cb = FALSE
               /\ wire[p + 1].cb = calls[i].cb

\* C17 (amended): a frame that is not the payload-less fast-path frame
\* reaches the transport in exactly one write holding header and payload
\* when the payload handed to the frame builder is shorter than 32768 bytes
\* or when it must be masked and the call's input was a Buffer (compressed
\* or not); otherwise in exactly two writes, the header first and the
\* payload second; the completion callback rides on the last write only.
C17_OneOrTwoWrites ==
  \A i \in DOMAIN calls :
    (calls[i].accepted /\ ~Falsy(calls[i].data) /\ FramesOf(i) # {}) =>
      LET n == BLen(BuilderPayload(i))
          p == CHOOSE q \in FramesOf(i) : \A r \in FramesOf(i) : q <= r
          off == dataOffset(n, calls[i].mask)
      IN  IF n < 32768 \/ (calls[i].mask /\ calls[i].data.t = "buffer")
          THEN /\ Cardinality(FramesOf(i)) = 1
               /\ wire[p].part = "frame"
               /\ BLen(wire[p].buf) = off + n
               /\ wire[p].cb = calls[i].cb
          ELSE /\ FramesOf(i) = {p, p + 1}
               /\ wire[p].part = "header" /\ wire[p + 1].part = "payload"
               /\ BLen(wire[p].buf) = off
               /\ BLen(wire[p + 1].buf) = n
               /\ wire[p].cb = FALSE
               /\ wire[p + 1].cb = calls[i].cb

C17_Witness ==
  \E i \in SendCalls :
    /\ calls[i].data = BufferOf(32768) /\ calls[i].mask /\ calls[i].compress
    /\ calls[i].cb
    /\ BLen(BuilderPayload(i)) >= 32768
    /\ Cardinality(FramesOf(i)) = 1

\* C18: no operation mutates a payload object supplied by the caller:
\* masking in place is applied only to a buffer the encoder created from a
\* non-Buffer input (by copying it or by compressing it); a masked Buffer
\* of the caller is masked into a fresh output buffer, written in one
\* write, for every payload length.
C18_CallerBufferUntouched ==
  /\ \A k \in DOMAIN inPlace :
       /\ inPlace[k].owner = "encoder"
       /\ calls[inPlace[k].id].data.t # "buffer"
  /\ \A i \in DOMAIN calls :
       (calls[i].data.t = "buffer" /\ calls[i].mask /\ FramesOf(i) # {}) =>
         /\ Cardinality(FramesOf(i)) = 1
         /\ FrameOf(i).part = "frame"
         /\ WireUnmasked(i) = BuilderPayload(i)
         /\ \A k \in DOMAIN inPlace : inPlace[k].id # i

C18_Witness ==
  \E i \in SendCalls :
    /\ calls[i].data = BufferOf(65536) /\ calls[i].mask
    /\ FramesOf(i) # {}
    /\ WireBody(i) # calls[i].data.buf
    /\ inPlace = <<>>

\* a write that holds a whole frame: header bytes and as many payload
\* bytes as the header states
WholeFrame(w) ==
  /\ Len(w.buf.pre) >= 2
  /\ Len(w.buf.pre) >= WireOffset(w) \/ w.buf.n = 0
  /\ BLen(w.buf) = WireOffset(w) + WireLength(w)

\* C19: in the two-write path the header write and the payload write of a
\* frame are adjacent on the transport under every interleaving of calls
\* and compression completions: a header write of a call none of whose
\* writes failed is directly followed by the payload write of the same
\* call, of the length the header states; a payload write directly follows
\* its header write; and as long as no write has failed the transport
\* holds a concatenation of whole frames.
C19_TwoWritesAdjacent ==
  /\ \A p \in DOMAIN wire :
       (wire[p].part = "header" /\ FailuresOf(wire[p].id) = 0) =>
         /\ p + 1 \in DOMAIN wire
         /\ wire[p + 1].part = "payload"
         /\ wire[p + 1].id = wire[p].id
         /\ BLen(wire[p].buf) = WireOffset(wire[p])
         /\ BLen(wire[p + 1].buf) = WireLength(wire[p])
  /\ \A p \in DOMAIN wire :
       wire[p].part = "payload" =>
         /\ p - 1 \in DOMAIN wire
         /\ wire[p - 1].part = "header"
         /\ wire[p - 1].id = wire[p].id
  /\ failedWrites = <<>> =>
       \A p \in DOMAIN wire : wire[p].part = "frame" => WholeFrame(wire[p])

\* a compressed two-write frame written after the frame of a later call
C19_Witness ==
  /\ failedWrites = <<>>
  /\ \E p \in DOMAIN wire :
       /\ p > 1 /\ p + 1 \in DOMAIN wire
       /\ wire[p].part = "header" /\ wire[p + 1].part = "payload"
       /\ wire[p + 1].id = wire[p].id
       /\ wire[p - 1].id > wire[p].id

\* the call's frame is on the transport, or its write failed, or its
\* deflate stream failed
Settled(i) ==
  \/ Cardinality({ p \in FrameStarts : wire[p].id = i }) = 1
  \/ FailuresOf(i) > 0
  \/ ErrsOf(i, "CompressionFailure") # <<>>

AtMostOneFrame ==
  \A i \in DOMAIN calls :
    /\ Cardinality({ p \in FrameStarts : wire[p].id = i }) <= 1
    /\ ~calls[i].accepted => FramesOf(i) = {}
    /\ OnWire(i) => /\ WireOpcode(HeadOf(i)) = calls[i].opcode
                    /\ WireFin(HeadOf(i)) = calls[i].fin

\* C20: every accepted call of send, ping, pong or close puts at most one
\* frame on the transport, and unless its write fails or its deflate stream
\* fails it eventually puts exactly one frame there, which carries the
\* opcode and the fin flag computed when the call was made.
C20_OneFramePerCall ==
  /\ []AtMostOneFrame
  /\ \A i \in 1..MaxLiveCalls :
       (i \in DOMAIN calls /\ calls[i].accepted) ~> Settled(i)

\* the frame of a compressed fragment reached the transport after a later
\* fragment changed the fragmentation state
C20_Witness ==
  \E i \in SendCalls, j \in SendCalls :
    /\ i < j /\ calls[i].compress /\ ~calls[i].fin /\ calls[j].fin
    /\ calls[i].opcode = 1 /\ calls[j].opcode = 0
    /\ OnWire(i) /\ OnWire(j)
    /\ \E p, q \in FrameStarts : wire[p].id = i /\ wire[q].id = j /\ q < p
====
